---- MODULE Spec2Model ----
(***************************************************************************)
(* Model of Heterogenous/stacking_HR.py: the module-level script that      *)
(* loads two cardiovascular tables, harmonizes them, samples, scales,      *)
(* splits, grid-searches a stacking classifier, reports metrics and a      *)
(* diversity score.  One action per statement group of the script; the     *)
(* pandas / scikit-learn calls are modelled by what they compute on the    *)
(* table.  Numbers are exact rationals [n, d] (d > 0), NaN is [0, 0].      *)
(***************************************************************************)
EXTENDS Integers, Sequences, FiniteSets, TLC

(* ------------------------------ bounds -------------------------------- *)
\* rows of the two input files in the pipeline specification
RowsA == 50
RowsB == 50
\* rows of the varied table in the harmonization specification
SmallRows == 3

(* --------------------------- exact numbers ---------------------------- *)
Abs(a) == IF a < 0 THEN -a ELSE a

RECURSIVE GCD(_, _)
GCD(a, b) == IF b = 0 THEN a ELSE GCD(b, a % b)

NaN == [n |-> 0, d |-> 0]
IsNaN(a) == a.d = 0

Rat(n, d) ==
    IF d = 0 THEN NaN
    ELSE LET g == GCD(Abs(n), Abs(d))
             s == IF d < 0 THEN -1 ELSE 1
         IN  [n |-> (s * n) \div g, d |-> (s * d) \div g]

Int2Rat(i) == [n |-> i, d |-> 1]
RAdd(a, b) == IF IsNaN(a) \/ IsNaN(b) THEN NaN ELSE Rat(a.n * b.d + b.n * a.d, a.d * b.d)
RSub(a, b) == IF IsNaN(a) \/ IsNaN(b) THEN NaN ELSE Rat(a.n * b.d - b.n * a.d, a.d * b.d)
RMul(a, b) == IF IsNaN(a) \/ IsNaN(b) THEN NaN ELSE Rat(a.n * b.n, a.d * b.d)
\* every division of the script has a positive integer count as divisor
RDivInt(a, k) == IF IsNaN(a) \/ k = 0 THEN NaN ELSE Rat(a.n, a.d * k)
\* comparisons with NaN are false, as in Python
RGt(a, b) == ~IsNaN(a) /\ ~IsNaN(b) /\ a.n * b.d > b.n * a.d

LCM(a, b) == (a \div GCD(a, b)) * b

\* the least common denominator of s[lo..hi]
RECURSIVE LcmDen(_, _, _)
LcmDen(s, lo, hi) ==
    IF lo > hi THEN 1
    ELSE IF lo = hi THEN s[lo].d
    ELSE LET mid == (lo + hi) \div 2
         IN  LCM(LcmDen(s, lo, mid), LcmDen(s, mid + 1, hi))

\* the sum of the numerators of s[lo..hi] over the denominator D
RECURSIVE SumNum(_, _, _, _)
SumNum(s, D, lo, hi) ==
    IF lo > hi THEN 0
    ELSE IF lo = hi THEN s[lo].n * (D \div s[lo].d)
    ELSE LET mid == (lo + hi) \div 2
         IN  SumNum(s, D, lo, mid) + SumNum(s, D, mid + 1, hi)

\* the sum of a sequence of numbers
RSum(s) ==
    IF \E i \in 1..Len(s) : IsNaN(s[i]) THEN NaN
    ELSE LET D == LcmDen(s, 1, Len(s))
         IN  Rat(SumNum(s, D, 1, Len(s)), D)

\* the numbers of s[lo..hi] that are not NaN, in order
RECURSIVE FilterNaN(_, _, _)
FilterNaN(s, lo, hi) ==
    IF lo > hi THEN << >>
    ELSE IF lo = hi THEN (IF IsNaN(s[lo]) THEN << >> ELSE << s[lo] >>)
    ELSE LET mid == (lo + hi) \div 2
         IN  FilterNaN(s, lo, mid) \o FilterNaN(s, mid + 1, hi)

SeqFilterNaN(s) == FilterNaN(s, 1, Len(s))

\* mean that skips NaN (pandas DataFrame.mean, numpy nanmean); NaN when nothing is left
NanMean(s) == LET v == SeqFilterNaN(s) IN RDivInt(RSum(v), Len(v))

\* population variance that skips NaN (StandardScaler uses ddof = 0)
NanVar(s) ==
    LET v == SeqFilterNaN(s)
        m == NanMean(s)
        sq == [i \in 1..Len(v) |-> RMul(RSub(v[i], m), RSub(v[i], m))]
    IN  RDivInt(RSum(sq), Len(v))

(* ------------------------- cells and tables --------------------------- *)
\* a DataFrame cell: a number (k = "num", value n/d) or a string (k = "str", text s)
NumCell(r) == [k |-> "num", s |-> "", n |-> r.n, d |-> r.d]
StrCell(t) == [k |-> "str", s |-> t, n |-> 0, d |-> 0]
Val(c) == [n |-> c.n, d |-> c.d]
CellIsNaN(c) == c.k = "num" /\ c.d = 0

\* a table: its column labels cols, its row count n, the column cell[c] under
\* each label c and, for a label that more than one column carries, dup[c]: the
\* columns under it, by the name each had in the file (pandas allows duplicate
\* labels; cell[c] then stands for one of them)
NoTable == [cols |-> {}, n |-> 0, cell |-> << >>, dup |-> << >>]
ColVals(t, c) == [i \in 1..t.n |-> Val(t.cell[c][i])]

\* the text of a CSV field as a number; NaN when it is not a number
ParseNum(tok) ==
    CASE tok = "-9"  -> Int2Rat(-9)
      [] tok = "-1"  -> Int2Rat(-1)
      [] tok = "0"   -> Int2Rat(0)
      [] tok = "1"   -> Int2Rat(1)
      [] tok = "2"   -> Int2Rat(2)
      [] tok = "3"   -> Int2Rat(3)
      [] tok = "0.5" -> Rat(1, 2)
      [] OTHER       -> NaN

\* fields read_csv takes for missing by default
IsNA(tok) == tok \in {"", "NA"}

\* read_csv infers one dtype per column: numeric when every field is a number
\* or missing, otherwise object, whose fields stay strings
ReadCsvColumn(toks) ==
    LET numeric == \A i \in 1..Len(toks) : IsNA(toks[i]) \/ ~IsNaN(ParseNum(toks[i]))
    IN  [i \in 1..Len(toks) |->
            IF IsNA(toks[i]) THEN NumCell(NaN)
            ELSE IF numeric THEN NumCell(ParseNum(toks[i]))
            ELSE StrCell(toks[i])]

read_csv(raw) ==
    [cols |-> raw.cols, n |-> raw.n,
     cell |-> [c \in raw.cols |-> ReadCsvColumn(raw.tok[c])], dup |-> << >>]

\* df.replace(['?', '-9'], np.nan): the list holds strings, so only string
\* cells can match; a number -9 in a numeric column is not equal to '-9'
ReplaceCell(c) == IF c.k = "str" /\ c.s \in {"?", "-9"} THEN NumCell(NaN) ELSE c

\* pd.to_numeric(errors='coerce')
ToNumericCell(c) == IF c.k = "str" THEN NumCell(ParseNum(c.s)) ELSE c

\* fillna(df.mean()): NaN cells take the column mean of the other cells
FillNaColumn(col) ==
    LET m == NanMean([i \in 1..Len(col) |-> Val(col[i])])
    IN  [i \in 1..Len(col) |-> IF CellIsNaN(col[i]) THEN NumCell(m) ELSE col[i]]

CleanColumn(col) ==
    FillNaColumn([i \in 1..Len(col) |-> ToNumericCell(ReplaceCell(col[i]))])

\* lines 26-28 / 31-33
CleanTable(t) == [t EXCEPT !.cell = [c \in t.cols |-> CleanColumn(t.cell[c])]]

(* ------------------------- lines 35-57: schema ------------------------ *)
SourceBNames == {"age", "gender", "chestpain", "restingBP", "serumcholestrol",
                 "fastingbloodsugar", "restingrelectro", "maxheartrate",
                 "exerciseangia", "oldpeak", "slope", "noofmajorvessels", "target"}

feature_mapping(c) ==
    CASE c = "age"               -> "Age"
      [] c = "gender"            -> "Sex"
      [] c = "chestpain"         -> "cp"
      [] c = "restingBP"         -> "trestbps"
      [] c = "serumcholestrol"   -> "chol"
      [] c = "fastingbloodsugar" -> "fbs"
      [] c = "restingrelectro"   -> "restecg"
      [] c = "maxheartrate"      -> "thalach"
      [] c = "exerciseangia"     -> "exang"
      [] c = "oldpeak"           -> "oldpeak"
      [] c = "slope"             -> "slope"
      [] c = "noofmajorvessels"  -> "ca"
      [] c = "target"            -> "num"
      [] OTHER                   -> c

\* df.drop(columns=[...])
DropCols(t, cs) ==
    [t EXCEPT !.cols = t.cols \ cs, !.cell = [c \in t.cols \ cs |-> t.cell[c]]]

\* the table t with each column c relabelled map[c]; two columns that get the
\* same label both stay, as duplicate labels
Relabel(t, map) ==
    LET new == {map[c] : c \in t.cols}
        from(nc) == {c \in t.cols : map[c] = nc}
        dups == {nc \in new : Cardinality(from(nc)) > 1}
    IN  [t EXCEPT !.cols = new,
                  !.cell = [nc \in new |-> t.cell[CHOOSE c \in from(nc) : TRUE]],
                  !.dup = [nc \in dups |-> [c \in from(nc) |-> t.cell[c]]]]

\* the labels of t that more than one column carries
DuplicateLabels(t) == DOMAIN t.dup

\* variant of Rename whose lookup table lacks the entry 'target': 'num'
RenameSkipTarget(t) ==
    Relabel(t, [c \in t.cols |-> IF c = "target" THEN c ELSE feature_mapping(c)])

\* df.rename(columns=feature_mapping): names outside the table stay as they are
Rename(t) == Relabel(t, [c \in t.cols |-> feature_mapping(c)])

\* variant of BinLabel with the threshold test x >= 0
BinLabelGe(x) == IF RGt(x, Int2Rat(0)) \/ x = Int2Rat(0) THEN 1 ELSE 0

\* lambda x: 1 if x > 0 else 0
BinLabel(x) == IF RGt(x, Int2Rat(0)) THEN 1 ELSE 0

\* df['num'] = df['num'].apply(...)
Binarize(t) ==
    [t EXCEPT !.cell["num"] =
        [i \in 1..t.n |-> NumCell(Int2Rat(BinLabel(Val(t.cell["num"][i]))))]]

\* pd.concat([a, b], ignore_index=True) of two tables with unique labels: rows
\* of a then rows of b, over the union of the columns; a cell of a column its
\* table lacks is NaN
Concat(a, b) ==
    LET cs == a.cols \cup b.cols
    IN  [cols |-> cs, n |-> a.n + b.n,
         cell |-> [c \in cs |-> [i \in 1..(a.n + b.n) |->
                     IF i <= a.n
                     THEN (IF c \in a.cols THEN a.cell[c][i] ELSE NumCell(NaN))
                     ELSE (IF c \in b.cols THEN b.cell[c][i - a.n] ELSE NumCell(NaN))]],
         dup |-> << >>]

(* ------------------------ lines 66-78: sampling ----------------------- *)
\* frac = 0.1 and test_size = 0.2 as fractions 1/den
SampleFracDen == 10
TestSizeDen == 5

\* Python round(): half to even
RoundHalfEven(num, den) ==
    LET q == num \div den
        r == num % den
    IN  IF 2 * r < den THEN q
        ELSE IF 2 * r > den THEN q + 1
        ELSE IF q % 2 = 0 THEN q ELSE q + 1

CeilDiv(num, den) == (num + den - 1) \div den

SampleSize(n) == RoundHalfEven(n, SampleFracDen)

\* the rows idx (a sequence of row numbers) of table t, in that order
TakeRows(t, idx) ==
    [cols |-> t.cols, n |-> Len(idx),
     cell |-> [c \in t.cols |-> [i \in 1..Len(idx) |-> t.cell[c][idx[i]]]],
     dup |-> << >>]

\* numpy.random.RandomState(42).permutation(n) for n = 1 .. 120, as row numbers
\* counted from 1: entry n holds the first 12 numbers of the permutation (all
\* of it when n is smaller).  random_state=42 makes both the sample of line 67
\* and the split of line 78 draw from a generator freshly seeded with 42.
SeededPermutationTable == <<
    << 1 >>,
    << 2, 1 >>,
    << 1, 2, 3 >>,
    << 2, 4, 1, 3 >>,
    << 2, 5, 3, 1, 4 >>,
    << 1, 2, 6, 3, 5, 4 >>,
    << 1, 2, 6, 3, 5, 4, 7 >>,
    << 2, 6, 1, 8, 3, 5, 4, 7 >>,
    << 8, 2, 6, 1, 9, 3, 5, 4, 7 >>,
    << 9, 2, 6, 1, 8, 3, 10, 5, 4, 7 >>,
    << 6, 1, 10, 11, 3, 2, 9, 5, 8, 4, 7 >>,
    << 11, 10, 1, 9, 6, 3, 2, 12, 5, 8, 4, 7 >>,
    << 12, 10, 1, 9, 6, 3, 2, 13, 5, 8, 11, 4 >>,
    << 10, 12, 1, 13, 6, 9, 3, 2, 14, 5, 8, 11 >>,
    << 10, 12, 1, 14, 6, 9, 3, 2, 15, 5, 8, 11 >>,
    << 1, 2, 6, 15, 14, 12, 9, 10, 3, 16, 5, 8 >>,
    << 1, 2, 6, 16, 12, 15, 9, 14, 3, 10, 17, 5 >>,
    << 1, 2, 9, 6, 4, 14, 17, 16, 12, 3, 10, 18 >>,
    << 1, 6, 12, 2, 9, 17, 4, 14, 16, 18, 3, 10 >>,
    << 1, 18, 16, 2, 9, 6, 12, 4, 19, 17, 14, 3 >>,
    << 1, 18, 16, 2, 9, 6, 12, 4, 19, 17, 14, 3 >>,
    << 1, 14, 9, 2, 16, 6, 21, 12, 4, 5, 18, 13 >>,
    << 16, 10, 1, 9, 18, 13, 2, 14, 6, 3, 12, 21 >>,
    << 9, 17, 1, 19, 12, 10, 14, 2, 22, 6, 3, 13 >>,
    << 9, 17, 1, 24, 12, 10, 14, 2, 23, 6, 3, 13 >>,
    << 9, 17, 1, 25, 12, 10, 14, 2, 24, 6, 3, 13 >>,
    << 9, 14, 10, 22, 1, 12, 17, 18, 13, 25, 2, 5 >>,
    << 10, 26, 9, 22, 1, 13, 18, 23, 12, 14, 16, 2 >>,
    << 28, 17, 13, 23, 9, 10, 22, 1, 27, 14, 16, 12 >>,
    << 28, 16, 24, 18, 9, 10, 29, 25, 13, 1, 5, 17 >>,
    << 28, 16, 24, 18, 9, 10, 30, 25, 13, 1, 5, 17 >>,
    << 30, 16, 25, 18, 9, 10, 31, 26, 13, 1, 5, 17 >>,
    << 32, 16, 27, 18, 9, 10, 20, 22, 13, 1, 5, 17 >>,
    << 16, 20, 28, 27, 9, 25, 22, 13, 33, 10, 1, 5 >>,
    << 27, 14, 25, 22, 16, 30, 20, 13, 9, 17, 10, 34 >>,
    << 36, 14, 27, 31, 17, 32, 22, 13, 9, 18, 10, 35 >>,
    << 18, 14, 5, 30, 36, 26, 7, 27, 25, 17, 9, 16 >>,
    << 34, 37, 5, 14, 31, 27, 7, 28, 25, 16, 18, 9 >>,
    << 34, 37, 5, 14, 31, 27, 7, 28, 25, 16, 18, 9 >>,
    << 20, 17, 16, 27, 5, 13, 38, 28, 40, 7, 26, 10 >>,
    << 25, 14, 9, 26, 5, 41, 20, 40, 30, 7, 27, 13 >>,
    << 26, 14, 9, 27, 5, 40, 20, 30, 31, 7, 28, 13 >>,
    << 38, 25, 26, 37, 35, 40, 5, 13, 9, 4, 7, 28 >>,
    << 38, 25, 26, 37, 35, 41, 5, 13, 9, 4, 7, 28 >>,
    << 40, 26, 27, 44, 36, 42, 5, 13, 9, 4, 7, 25 >>,
    << 40, 26, 27, 45, 36, 42, 5, 13, 9, 4, 7, 25 >>,
    << 28, 40, 27, 44, 25, 37, 13, 20, 5, 26, 9, 4 >>,
    << 28, 41, 27, 44, 25, 38, 13, 20, 5, 26, 9, 4 >>,
    << 14, 46, 48, 45, 18, 28, 27, 26, 32, 20, 13, 5 >>,
    << 14, 40, 31, 46, 18, 49, 27, 26, 33, 20, 13, 5 >>,
    << 44, 41, 47, 13, 25, 32, 18, 33, 4, 31, 14, 9 >>,
    << 20, 42, 48, 13, 44, 6, 18, 51, 4, 33, 14, 9 >>,
    << 20, 42, 48, 13, 44, 6, 18, 51, 4, 33, 14, 9 >>,
    << 20, 50, 49, 13, 45, 6, 18, 53, 4, 33, 14, 9 >>,
    << 32, 6, 33, 14, 20, 50, 42, 27, 44, 13, 53, 4 >>,
    << 1, 6, 34, 14, 20, 51, 37, 27, 45, 13, 55, 4 >>,
    << 1, 6, 31, 14, 35, 56, 28, 32, 46, 13, 48, 4 >>,
    << 1, 6, 35, 14, 45, 53, 38, 26, 47, 13, 49, 4 >>,
    << 1, 6, 35, 14, 46, 54, 58, 26, 48, 13, 50, 4 >>,
    << 1, 6, 37, 46, 14, 55, 34, 49, 13, 58, 47, 51 >>,
    << 1, 6, 47, 32, 14, 56, 35, 50, 13, 41, 34, 60 >>,
    << 51, 57, 1, 58, 6, 49, 17, 13, 26, 60, 31, 10 >>,
    << 62, 58, 1, 44, 6, 37, 17, 13, 26, 61, 56, 10 >>,
    << 53, 59, 1, 45, 6, 37, 17, 13, 26, 62, 57, 10 >>,
    << 54, 61, 1, 46, 6, 62, 17, 13, 65, 31, 34, 10 >>,
    << 55, 63, 1, 46, 6, 64, 17, 13, 66, 31, 34, 10 >>,
    << 37, 17, 5, 10, 46, 41, 62, 6, 65, 13, 26, 60 >>,
    << 47, 17, 5, 10, 29, 42, 59, 6, 62, 13, 26, 66 >>,
    << 23, 1, 48, 5, 54, 19, 11, 34, 45, 13, 32, 10 >>,
    << 23, 1, 50, 5, 55, 19, 11, 34, 46, 13, 32, 10 >>,
    << 23, 1, 50, 5, 56, 19, 11, 34, 47, 13, 32, 10 >>,
    << 5, 63, 19, 1, 29, 51, 11, 35, 13, 55, 48, 32 >>,
    << 5, 64, 19, 1, 29, 73, 11, 35, 13, 56, 66, 32 >>,
    << 5, 64, 19, 1, 29, 74, 11, 35, 13, 56, 66, 32 >>,
    << 5, 64, 11, 1, 36, 62, 29, 13, 70, 65, 35, 43 >>,
    << 5, 36, 11, 1, 46, 48, 66, 54, 51, 29, 68, 71 >>,
    << 5, 36, 11, 1, 46, 48, 67, 54, 51, 29, 69, 75 >>,
    << 34, 1, 35, 13, 11, 78, 31, 5, 50, 67, 62, 23 >>,
    << 31, 1, 23, 32, 19, 29, 11, 71, 5, 13, 50, 34 >>,
    << 31, 1, 23, 32, 19, 29, 11, 71, 5, 13, 50, 34 >>,
    << 31, 1, 23, 32, 19, 29, 11, 71, 5, 13, 50, 34 >>,
    << 31, 1, 23, 32, 19, 29, 11, 54, 5, 13, 50, 34 >>,
    << 31, 1, 23, 32, 19, 29, 11, 54, 5, 13, 50, 34 >>,
    << 74, 1, 59, 23, 13, 71, 11, 19, 5, 66, 41, 48 >>,
    << 79, 1, 69, 23, 13, 83, 11, 19, 5, 67, 41, 48 >>,
    << 76, 1, 71, 23, 13, 57, 11, 19, 5, 68, 62, 65 >>,
    << 77, 1, 27, 23, 13, 68, 11, 19, 5, 69, 85, 66 >>,
    << 77, 1, 27, 23, 13, 68, 11, 19, 5, 69, 86, 66 >>,
    << 45, 54, 31, 13, 50, 1, 65, 19, 11, 23, 5, 34 >>,
    << 41, 23, 56, 71, 1, 27, 40, 66, 11, 45, 82, 36 >>,
    << 41, 23, 56, 89, 1, 27, 40, 67, 11, 45, 86, 36 >>,
    << 41, 23, 56, 73, 1, 27, 40, 68, 11, 45, 84, 36 >>,
    << 41, 23, 56, 73, 1, 27, 40, 68, 11, 45, 84, 36 >>,
    << 41, 23, 56, 73, 1, 27, 40, 68, 11, 45, 84, 36 >>,
    << 69, 23, 73, 74, 1, 27, 41, 43, 11, 46, 85, 56 >>,
    << 81, 78, 74, 95, 34, 80, 70, 43, 1, 11, 65, 31 >>,
    << 63, 41, 94, 19, 82, 84, 65, 43, 11, 1, 32, 76 >>,
    << 63, 41, 95, 19, 82, 84, 65, 43, 11, 1, 32, 76 >>,
    << 63, 41, 96, 19, 98, 85, 65, 43, 11, 1, 32, 77 >>,
    << 84, 54, 71, 46, 45, 40, 23, 81, 11, 1, 19, 31 >>,
    << 85, 56, 67, 68, 46, 40, 23, 45, 11, 1, 19, 31 >>,
    << 31, 68, 63, 48, 43, 41, 91, 46, 11, 1, 19, 32 >>,
    << 31, 68, 63, 48, 43, 41, 91, 46, 11, 1, 19, 32 >>,
    << 31, 66, 65, 54, 46, 94, 92, 48, 11, 1, 19, 32 >>,
    << 31, 66, 65, 54, 46, 95, 105, 48, 11, 1, 19, 32 >>,
    << 101, 11, 5, 82, 98, 66, 31, 34, 94, 12, 48, 43 >>,
    << 77, 11, 5, 100, 71, 67, 31, 46, 95, 12, 79, 48 >>,
    << 78, 11, 5, 84, 63, 68, 31, 46, 96, 12, 82, 80 >>,
    << 79, 11, 5, 85, 65, 69, 31, 46, 97, 12, 80, 81 >>,
    << 79, 11, 5, 85, 65, 69, 31, 46, 97, 12, 80, 81 >>,
    << 79, 11, 5, 85, 65, 69, 31, 46, 97, 12, 80, 81 >>,
    << 41, 66, 5, 48, 43, 70, 27, 12, 11, 45, 74, 56 >>,
    << 81, 5, 41, 70, 11, 46, 71, 67, 48, 12, 99, 37 >>,
    << 81, 5, 41, 70, 11, 46, 71, 67, 48, 12, 99, 37 >>,
    << 82, 5, 41, 70, 11, 46, 71, 67, 48, 12, 101, 37 >>,
    << 84, 5, 43, 41, 11, 48, 111, 37, 71, 12, 46, 27 >>,
    << 45, 5, 54, 43, 11, 86, 73, 95, 37, 12, 41, 27 >>,
    << 57, 90, 5, 46, 27, 117, 70, 11, 91, 74, 19, 112 >>,
    << 57, 90, 5, 46, 27, 118, 70, 11, 91, 74, 19, 113 >>,
    << 45, 48, 5, 56, 27, 65, 74, 11, 41, 108, 19, 63 >> >>

SeededPermutation(n) == SeededPermutationTable[n]

\* DataFrame.sample draws RandomState(42).choice(n, k, replace=False), which is
\* the first k numbers of permutation(n), and keeps the rows in drawn order
SampleDraw(n, k) == IF k = 0 THEN << >> ELSE SubSeq(SeededPermutation(n), 1, k)

(* ------------------------ lines 73-75: scaling ------------------------ *)
\* StandardScaler replaces a scale of zero by one; the scale is kept squared
HandleZeros(v) == IF v = Int2Rat(0) THEN Int2Rat(1) ELSE v

NoScaler == [mean_ |-> << >>, var_ |-> << >>, scale2_ |-> << >>, n_samples_seen_ |-> << >>]

\* scaler.fit(t): per-column statistics over the rows of t
ScalerFit(t) ==
    [mean_  |-> [c \in t.cols |-> NanMean(ColVals(t, c))],
     var_   |-> [c \in t.cols |-> NanVar(ColVals(t, c))],
     scale2_ |-> [c \in t.cols |-> HandleZeros(NanVar(ColVals(t, c)))],
     n_samples_seen_ |-> [c \in t.cols |-> Len(SeqFilterNaN(ColVals(t, c)))]]

\* scaler.transform(t): the cell (x - mean) / scale, kept as the centred value
\* num and the squared scale den2 (x - mean over sqrt(den2)); 0/0 is NaN
ScaledCell(x, m, s2) ==
    LET cen == RSub(x, m)
    IN  IF IsNaN(cen) \/ IsNaN(s2) \/ s2 = Int2Rat(0)
        THEN [num |-> NaN, den2 |-> NaN]
        ELSE [num |-> cen, den2 |-> IF cen = Int2Rat(0) THEN Int2Rat(1) ELSE s2]

ScalerTransform(sc, t) ==
    [cols |-> t.cols, n |-> t.n,
     cell |-> [c \in t.cols |-> [i \in 1..t.n |->
                 ScaledCell(Val(t.cell[c][i]), sc.mean_[c], sc.scale2_[c])]],
     dup |-> << >>]

(* --------------------------- lines 119-147 ---------------------------- *)
\* roc_auc_score: the share of (positive, negative) pairs ranked in order,
\* ties counting one half
AucScore(yt, p) ==
    LET pos == {i \in 1..Len(yt) : yt[i] = Int2Rat(1)}
        neg == {i \in 1..Len(yt) : yt[i] # Int2Rat(1)}
        win == Cardinality({pr \in pos \X neg : RGt(p[pr[1]], p[pr[2]])})
        tie == Cardinality({pr \in pos \X neg : p[pr[1]] = p[pr[2]]})
    IN  Rat(2 * win + tie, 2 * Cardinality(pos) * Cardinality(neg))

LabelsOf(s) == {s[i] : i \in 1..Len(s)}

NoMetrics == [cm |-> << >>, accuracy |-> NaN, f1 |-> NaN]

\* confusion_matrix (rows actual, columns predicted, over the labels that
\* occur), accuracy_score and f1_score (positive label 1, 0 when undefined)
Metrics(yt, yp) ==
    LET labels == LabelsOf(yt) \cup LabelsOf(yp)
        cnt(a, b) == Cardinality({i \in 1..Len(yt) : yt[i] = a /\ yp[i] = b})
        one == Int2Rat(1)
        tp == cnt(one, one)
        fp == Cardinality({i \in 1..Len(yt) : yt[i] # one /\ yp[i] = one})
        fn == Cardinality({i \in 1..Len(yt) : yt[i] = one /\ yp[i] # one})
    IN  [cm |-> [pr \in labels \X labels |-> cnt(pr[1], pr[2])],
         accuracy |-> Rat(Cardinality({i \in 1..Len(yt) : yt[i] = yp[i]}), Len(yt)),
         f1 |-> IF 2 * tp + fp + fn = 0 THEN Int2Rat(0) ELSE Rat(2 * tp, 2 * tp + fp + fn)]

(* --------------------------- lines 159-164 ---------------------------- *)
\* np.vstack((knn_pred, svm_pred, dt_pred)).T: one row per held-out instance
PredMatrix(k, s, d) == [i \in 1..Len(k) |-> << k[i], s[i], d[i] >>]

\* scipy hamming distance of two vectors: the share of positions that differ
Hamming(u, v) == Rat(Cardinality({j \in 1..Len(u) : u[j] # v[j]}), Len(u))

\* pairwise_distances(m, metric='hamming').mean(): the distance is taken
\* between every two ROWS of m (a square matrix, diagonal included) and the
\* mean runs over all its entries
PairwiseHammingMean(m) ==
    LET n == Len(m)
        entries == [e \in 1..(n * n) |->
                      Hamming(m[((e - 1) \div n) + 1], m[((e - 1) % n) + 1])]
    IN  RDivInt(RSum(entries), n * n)

(* ------------------------------ inputs -------------------------------- *)
CanonicalNames == {feature_mapping(c) : c \in SourceBNames}
OutcomeNames == {"num", "target"}

MissingFile == [present |-> FALSE, cols |-> {}, n |-> 0, tok |-> << >>]

\* the field of feature column c in row i: the same in every row ("const"),
\* cycling over three values ("vary"), or cycling in the cholesterol column and
\* the same in every row elsewhere ("mixed")
FeatureToken(fp, c, i) ==
    IF fp = "const" \/ (fp = "mixed" /\ c \notin {"chol", "serumcholestrol"})
    THEN "1"
    ELSE << "0", "1", "2" >>[(i % 3) + 1]
OutcomeToken(np, i) ==
    CASE np = "binary"  -> << "0", "1" >>[(i % 2) + 1]
      [] np = "multi"   -> << "2", "?", "-1", "0.5", "-9", "x", "NA", "0" >>[(i % 8) + 1]
      [] np = "numeric" -> << "2", "-9", "0", "0.5", "-1", "NA", "1", "0" >>[(i % 8) + 1]
      [] np = "absent"  -> "NA"

RawFile(cols, n, fp, np) ==
    [present |-> TRUE, cols |-> cols, n |-> n,
     tok |-> [c \in cols |-> [i \in 1..n |->
                IF c \in OutcomeNames THEN OutcomeToken(np, i) ELSE FeatureToken(fp, c, i)]]]

\* a file whose column vc holds the fields toks, the other columns as RawFile
RawVaried(cols, vc, toks) ==
    [present |-> TRUE, cols |-> cols, n |-> Len(toks),
     tok |-> [c \in cols |-> [i \in 1..Len(toks) |->
                IF c = vc THEN toks[i]
                ELSE IF c \in OutcomeNames THEN OutcomeToken("binary", i)
                ELSE FeatureToken("const", c, i)]]]

HeadersA == {CanonicalNames, CanonicalNames \cup {"thal"},
             CanonicalNames \ {"ca"}, CanonicalNames \ {"num"}}
\* the last two headers hold a source-B name together with the canonical name
\* it is renamed to
HeadersB == {SourceBNames, SourceBNames \cup {"patientid"},
             SourceBNames \cup {"Age"}, SourceBNames \cup {"num"}}

PipelineInputs ==
    {[uci |-> RawFile(ha, RowsA, "vary", "multi"),
      india |-> RawFile(hb, RowsB, "vary", "binary")] : ha \in HeadersA, hb \in HeadersB}
    \cup
    {[uci |-> RawFile(CanonicalNames, RowsA, "vary", np),
      india |-> RawFile(SourceBNames \cup {"patientid"}, RowsB, "vary", np)] :
        np \in {"binary", "multi", "numeric", "absent"}}
    \cup
    {[uci |-> RawFile(CanonicalNames, RowsA, "mixed", "binary"),
      india |-> RawFile(SourceBNames \cup {"patientid"}, RowsB, "mixed", "binary")]}
    \cup
    {[uci |-> MissingFile, india |-> RawFile(SourceBNames, RowsB, "vary", "binary")],
     [uci |-> RawFile(CanonicalNames, RowsA, "vary", "binary"), india |-> MissingFile]}

Tokens == {"NA", "?", "-9", "x", "-1", "0", "2", "0.5"}

\* files of n rows in which one column of one file ranges over every
\* sequence of fields
HarmonizeInputs(n) ==
    {[uci |-> RawVaried(CanonicalNames, vc, toks),
      india |-> RawFile(SourceBNames \cup {"patientid"}, n, "vary", "binary")] :
        vc \in {"chol", "num"}, toks \in [1..n -> Tokens]}
    \cup
    {[uci |-> RawFile(CanonicalNames, n, "vary", "binary"),
      india |-> RawVaried(SourceBNames \cup {"patientid"}, vc, toks)] :
        vc \in {"serumcholestrol", "target"}, toks \in [1..n -> Tokens]}

(* ------------------------------- state -------------------------------- *)
VARIABLES
    pc,
    failed,
    ran,
    stdout,
    files,
    uci_df,
    india_df,
    combined_data,
    data_sampled,
    X,
    y,
    scaler,
    X_scaled,
    X_train,
    X_test,
    y_train,
    y_test,
    grid_search,
    y_pred_proba,
    auc,
    plotted,
    y_pred,
    metrics,
    knn_pred,
    svm_pred,
    dt_pred,
    pred_matrix,
    disagreements

vars == << pc, failed, ran, stdout, files, uci_df, india_df, combined_data, data_sampled,
          X, y, scaler, X_scaled, X_train, X_test, y_train, y_test, grid_search,
          y_pred_proba, auc, plotted, y_pred, metrics, knn_pred, svm_pred, dt_pred, pred_matrix, disagreements >>

\* the statements of the script in program order
StageOrder == << "load_uci", "load_india", "clean_uci", "clean_india", "drop_id",
                 "rename", "bin_uci", "bin_india", "concat", "sample", "split_xy",
                 "scale", "tts", "grid_fit", "report_best", "predict_proba", "auc",
                 "roc_plot", "predict_report", "base_fit", "diversity" >>

Blank(inp) ==
    /\ failed = "none"
    /\ ran = << >>
    /\ stdout = << >>
    /\ files = inp
    /\ uci_df = NoTable
    /\ india_df = NoTable
    /\ combined_data = NoTable
    /\ data_sampled = NoTable
    /\ X = NoTable
    /\ y = << >>
    /\ scaler = NoScaler
    /\ X_scaled = NoTable
    /\ X_train = NoTable
    /\ X_test = NoTable
    /\ y_train = << >>
    /\ y_test = << >>
    /\ grid_search = "unfitted"
    /\ y_pred_proba = << >>
    /\ auc = NaN
    /\ plotted = FALSE
    /\ y_pred = << >>
    /\ metrics = NoMetrics
    /\ knn_pred = << >>
    /\ svm_pred = << >>
    /\ dt_pred = << >>
    /\ pred_matrix = << >>
    /\ disagreements = NaN

Init == pc = "load_uci" /\ \E inp \in PipelineInputs : Blank(inp)

\* an uncaught exception: the interpreter exits, nothing else changes
Fail(stage) ==
    /\ pc' = "aborted"
    /\ failed' = stage
    /\ ran' = ran
    /\ UNCHANGED << stdout, files, uci_df, india_df, combined_data, data_sampled, X, y,
                     scaler, X_scaled, X_train, X_test, y_train, y_test, grid_search,
                     y_pred_proba, auc, plotted, y_pred, metrics, knn_pred, svm_pred,
                     dt_pred, pred_matrix, disagreements >>

\* the statement completed; control moves to the next one
Ok(stage, next) ==
    /\ pc' = next
    /\ failed' = failed
    /\ ran' = Append(ran, stage)

\* line 22: pd.read_csv raises when the file cannot be read
LoadUci ==
    /\ pc = "load_uci"
    /\ IF ~files.uci.present
       THEN Fail("load_uci")
       ELSE /\ Ok("load_uci", "load_india")
            /\ uci_df' = read_csv(files.uci)
            /\ UNCHANGED << stdout, files, india_df, combined_data, data_sampled, X, y, scaler,
                            X_scaled, X_train, X_test, y_train, y_test, grid_search,
                            y_pred_proba, auc, plotted, y_pred, metrics, knn_pred, svm_pred,
                            dt_pred, pred_matrix, disagreements >>

\* line 23
LoadIndia ==
    /\ pc = "load_india"
    /\ IF ~files.india.present
       THEN Fail("load_india")
       ELSE /\ Ok("load_india", "clean_uci")
            /\ india_df' = read_csv(files.india)
            /\ UNCHANGED << stdout, files, uci_df, combined_data, data_sampled, X, y, scaler,
                            X_scaled, X_train, X_test, y_train, y_test, grid_search,
                            y_pred_proba, auc, plotted, y_pred, metrics, knn_pred, svm_pred,
                            dt_pred, pred_matrix, disagreements >>

\* lines 26-28: replace, to_numeric, fillna(mean)
CleanUci ==
    /\ pc = "clean_uci"
    /\ Ok("clean_uci", "clean_india")
    /\ uci_df' = CleanTable(uci_df)
    /\ UNCHANGED << stdout, files, india_df, combined_data, data_sampled, X, y, scaler,
                     X_scaled, X_train, X_test, y_train, y_test, grid_search,
                     y_pred_proba, auc, plotted, y_pred, metrics, knn_pred, svm_pred,
                     dt_pred, pred_matrix, disagreements >>

\* lines 31-33
CleanIndia ==
    /\ pc = "clean_india"
    /\ Ok("clean_india", "drop_id")
    /\ india_df' = CleanTable(india_df)
    /\ UNCHANGED << stdout, files, uci_df, combined_data, data_sampled, X, y, scaler,
                     X_scaled, X_train, X_test, y_train, y_test, grid_search,
                     y_pred_proba, auc, plotted, y_pred, metrics, knn_pred, svm_pred,
                     dt_pred, pred_matrix, disagreements >>

\* lines 53-54
DropPatientId ==
    /\ pc = "drop_id"
    /\ Ok("drop_id", "rename")
    /\ india_df' = IF "patientid" \in india_df.cols
                 THEN DropCols(india_df, {"patientid"}) ELSE india_df
    /\ UNCHANGED << stdout, files, uci_df, combined_data, data_sampled, X, y, scaler,
                     X_scaled, X_train, X_test, y_train, y_test, grid_search,
                     y_pred_proba, auc, plotted, y_pred, metrics, knn_pred, svm_pred,
                     dt_pred, pred_matrix, disagreements >>

\* line 57
RenameIndia ==
    /\ pc = "rename"
    /\ Ok("rename", "bin_uci")
    /\ india_df' = Rename(india_df)
    /\ UNCHANGED << stdout, files, uci_df, combined_data, data_sampled, X, y, scaler,
                     X_scaled, X_train, X_test, y_train, y_test, grid_search,
                     y_pred_proba, auc, plotted, y_pred, metrics, knn_pred, svm_pred,
                     dt_pred, pred_matrix, disagreements >>

\* line 60: uci_df['num'] raises KeyError when the column is absent
BinarizeUci ==
    /\ pc = "bin_uci"
    /\ IF "num" \notin uci_df.cols
       THEN Fail("bin_uci")
       ELSE /\ Ok("bin_uci", "bin_india")
            /\ uci_df' = Binarize(uci_df)
            /\ UNCHANGED << stdout, files, india_df, combined_data, data_sampled, X, y, scaler,
                            X_scaled, X_train, X_test, y_train, y_test, grid_search,
                            y_pred_proba, auc, plotted, y_pred, metrics, knn_pred, svm_pred,
                            dt_pred, pred_matrix, disagreements >>

\* line 61: KeyError when the column is absent; when two columns carry the
\* label, india_df['num'] is a table, the lambda gets a whole column and
\* x > 0 has no truth value (ValueError; the files here have two rows or more)
BinarizeIndia ==
    /\ pc = "bin_india"
    /\ IF "num" \notin india_df.cols \/ "num" \in DuplicateLabels(india_df)
       THEN Fail("bin_india")
       ELSE /\ Ok("bin_india", "concat")
            /\ india_df' = Binarize(india_df)
            /\ UNCHANGED << stdout, files, uci_df, combined_data, data_sampled, X, y, scaler,
                            X_scaled, X_train, X_test, y_train, y_test, grid_search,
                            y_pred_proba, auc, plotted, y_pred, metrics, knn_pred, svm_pred,
                            dt_pred, pred_matrix, disagreements >>

\* line 64: pd.concat aligns the columns of the two tables; when their column
\* indexes differ and one of them has a duplicate label the alignment raises
\* InvalidIndexError.  There is no check that the two schemas agree.
Combine ==
    /\ pc = "concat"
    /\ IF /\ DuplicateLabels(uci_df) \cup DuplicateLabels(india_df) # {}
          /\ << uci_df.cols, uci_df.dup >> # << india_df.cols, india_df.dup >>
       THEN Fail("concat")
       ELSE /\ Ok("concat", "sample")
            /\ combined_data' = Concat(uci_df, india_df)
            /\ UNCHANGED << stdout, files, uci_df, india_df, data_sampled, X, y, scaler,
                            X_scaled, X_train, X_test, y_train, y_test, grid_search,
                            y_pred_proba, auc, plotted, y_pred, metrics, knn_pred, svm_pred,
                            dt_pred, pred_matrix, disagreements >>

\* line 67: sample(frac=0.1, random_state=42) draws round(0.1 * n) rows without
\* replacement with a generator seeded with 42 and keeps them in drawn order
SampleRows ==
    /\ pc = "sample"
    /\ Ok("sample", "split_xy")
    /\ data_sampled' = TakeRows(combined_data,
                                SampleDraw(combined_data.n, SampleSize(combined_data.n)))
    /\ UNCHANGED << stdout, files, uci_df, india_df, combined_data, X, y, scaler,
                            X_scaled, X_train, X_test, y_train, y_test, grid_search,
                            y_pred_proba, auc, plotted, y_pred, metrics, knn_pred, svm_pred,
                            dt_pred, pred_matrix, disagreements >>

\* lines 70-71
SplitXy ==
    /\ pc = "split_xy"
    /\ Ok("split_xy", "scale")
    /\ X' = DropCols(data_sampled, {"num"})
    /\ y' = ColVals(data_sampled, "num")
    /\ UNCHANGED << stdout, files, uci_df, india_df, combined_data, data_sampled, scaler,
                            X_scaled, X_train, X_test, y_train, y_test, grid_search,
                            y_pred_proba, auc, plotted, y_pred, metrics, knn_pred, svm_pred,
                            dt_pred, pred_matrix, disagreements >>

\* lines 74-75: the scaler is fit on X, every sampled row, and X is transformed
\* with it; check_array rejects an empty matrix
Scale ==
    /\ pc = "scale"
    /\ IF X.n = 0 \/ X.cols = {}
       THEN Fail("scale")
       ELSE /\ Ok("scale", "tts")
            /\ scaler' = ScalerFit(X)
            /\ X_scaled' = ScalerTransform(scaler', X)
            /\ UNCHANGED << stdout, files, uci_df, india_df, combined_data, data_sampled, X, y,
                                   X_train, X_test, y_train, y_test, grid_search, y_pred_proba, auc,
                                   plotted, y_pred, metrics, knn_pred, svm_pred, dt_pred, pred_matrix,
                                   disagreements >>

\* line 78: train_test_split(test_size=0.2, random_state=42): the permutation
\* of the rows drawn by a generator seeded with 42, the first ceil(0.2 * n) of
\* it held out, the rest for training; raises when the training part would be
\* empty
TrainTestSplit ==
    /\ pc = "tts"
    /\ LET n == X_scaled.n
           n_test == CeilDiv(n, TestSizeDen)
       IN  IF n - n_test <= 0
           THEN Fail("tts")
           ELSE /\ Ok("tts", "grid_fit")
                /\ LET p == SeededPermutation(n)
                          test == [i \in 1..n_test |-> p[i]]
                          train == [i \in 1..(n - n_test) |-> p[n_test + i]]
                   IN  /\ X_test' = TakeRows(X_scaled, test)
                       /\ X_train' = TakeRows(X_scaled, train)
                       /\ y_test' = [i \in 1..n_test |-> y[test[i]]]
                       /\ y_train' = [i \in 1..(n - n_test) |-> y[train[i]]]
                /\ UNCHANGED << stdout, files, uci_df, india_df, combined_data, data_sampled, X, y,
                                       scaler, X_scaled, grid_search, y_pred_proba, auc, plotted, y_pred,
                                       metrics, knn_pred, svm_pred, dt_pred, pred_matrix, disagreements >>

\* a scaled matrix with a NaN entry: the estimators' input check rejects it
HasNaN(t) == \E c \in t.cols : \E i \in 1..t.n : IsNaN(t.cell[c][i].num)

\* how many rows each class of a label vector has
ClassCounts(s) == {Cardinality({i \in 1..Len(s) : s[i] = v}) : v \in LabelsOf(s)}

\* cv=5 of the stacking classifier and of the grid search (lines 96, 109)
CvFolds == 5

\* what the search needs of the training partition: no NaN (input check), a
\* class with at least cv members (the stratified folds raise otherwise) and
\* two members in every class (the stacking refit cross-fits the SVC, which
\* raises on a fold that is left with one class)
SearchCanFit ==
    /\ ~HasNaN(X_train)
    /\ Cardinality(LabelsOf(y_train)) >= 2
    /\ \E k \in ClassCounts(y_train) : k >= CvFolds
    /\ \A k \in ClassCounts(y_train) : k >= 2

\* variant of GridFit that catches the exception and goes on
GridFitSwallow ==
    /\ pc = "grid_fit"
    /\ \E ok \in BOOLEAN :
          /\ pc' = "report_best"
          /\ failed' = IF ok /\ SearchCanFit THEN failed ELSE "grid_fit"
          /\ ran' = Append(ran, "grid_fit")
          /\ grid_search' = "fitted"
          /\ UNCHANGED << stdout, files, uci_df, india_df, combined_data, data_sampled, X, y,
                                 scaler, X_scaled, X_train, X_test, y_train, y_test, y_pred_proba,
                                 auc, plotted, y_pred, metrics, knn_pred, svm_pred, dt_pred,
                                 pred_matrix, disagreements >>

\* lines 81-112: GridSearchCV(...).fit raises when the training partition
\* does not meet SearchCanFit; when it does, whether every inner fit succeeds
\* is decided inside scikit-learn and left open here.
GridFit ==
    /\ pc = "grid_fit"
    /\ \E ok \in BOOLEAN :
          IF ok /\ SearchCanFit
          THEN /\ Ok("grid_fit", "report_best")
               /\ grid_search' = "fitted"
               /\ UNCHANGED << stdout, files, uci_df, india_df, combined_data, data_sampled, X, y,
                                      scaler, X_scaled, X_train, X_test, y_train, y_test, y_pred_proba,
                                      auc, plotted, y_pred, metrics, knn_pred, svm_pred, dt_pred,
                                      pred_matrix, disagreements >>
          ELSE Fail("grid_fit")

\* lines 115-116
ReportBest ==
    /\ pc = "report_best"
    /\ Ok("report_best", "predict_proba")
    /\ stdout' = stdout \o << "Best Parameters", "Best AUC Score" >>
    /\ UNCHANGED << files, uci_df, india_df, combined_data, data_sampled, X, y, scaler,
                            X_scaled, X_train, X_test, y_train, y_test, grid_search,
                            y_pred_proba, auc, plotted, y_pred, metrics, knn_pred, svm_pred,
                            dt_pred, pred_matrix, disagreements >>

\* the values the fitted ensemble may give n rows as probability of class 1.
\* The script reads them through their order (line 122) and their side of 1/2
\* (line 139): n + 1 levels on each side of 1/2, and 1/2, give every such
\* pattern of n numbers of [0, 1]
ProbaLevels(n) == {Rat(k, 2 * n + 2) : k \in 0..(2 * n + 2)}

\* line 119
PredictProba ==
    /\ pc = "predict_proba"
    /\ IF HasNaN(X_test)
       THEN Fail("predict_proba")
       ELSE /\ Ok("predict_proba", "auc")
            /\ \E p \in [1..Len(y_test) -> ProbaLevels(Len(y_test))] : y_pred_proba' = p
            /\ UNCHANGED << stdout, files, uci_df, india_df, combined_data, data_sampled, X, y,
                                   scaler, X_scaled, X_train, X_test, y_train, y_test, grid_search, auc,
                                   plotted, y_pred, metrics, knn_pred, svm_pred, dt_pred, pred_matrix,
                                   disagreements >>

\* lines 122-123: with a single class in y_test roc_auc_score raises, or in
\* later releases warns and returns NaN
Auc ==
    /\ pc = "auc"
    /\ \E raises \in BOOLEAN :
          IF Cardinality(LabelsOf(y_test)) < 2 /\ raises
          THEN Fail("auc")
          ELSE /\ Ok("auc", "roc_plot")
               /\ auc' = IF Cardinality(LabelsOf(y_test)) < 2 THEN NaN
                         ELSE AucScore(y_test, y_pred_proba)
               /\ stdout' = Append(stdout, "Stacking Model AUC")
               /\ UNCHANGED << files, uci_df, india_df, combined_data, data_sampled, X, y, scaler,
                                      X_scaled, X_train, X_test, y_train, y_test, grid_search,
                                      y_pred_proba, plotted, y_pred, metrics, knn_pred, svm_pred, dt_pred,
                                      pred_matrix, disagreements >>

\* lines 126-136
RocPlot ==
    /\ pc = "roc_plot"
    /\ Ok("roc_plot", "predict_report")
    /\ plotted' = TRUE
    /\ UNCHANGED << stdout, files, uci_df, india_df, combined_data, data_sampled, X, y,
                            scaler, X_scaled, X_train, X_test, y_train, y_test, grid_search,
                            y_pred_proba, auc, y_pred, metrics, knn_pred, svm_pred, dt_pred,
                            pred_matrix, disagreements >>

\* lines 139-147: predict gives class 1 where the probability exceeds 1/2
PredictReport ==
    /\ pc = "predict_report"
    /\ Ok("predict_report", "base_fit")
    /\ y_pred' = [i \in 1..Len(y_test) |->
                    IF RGt(y_pred_proba[i], Rat(1, 2)) THEN Int2Rat(1) ELSE Int2Rat(0)]
    /\ metrics' = Metrics(y_test, y_pred')
    /\ stdout' = stdout \o << "Confusion Matrix", "Classification Report",
                              "Accuracy", "F1 Score" >>
    /\ UNCHANGED << files, uci_df, india_df, combined_data, data_sampled, X, y, scaler,
                            X_scaled, X_train, X_test, y_train, y_test, grid_search,
                            y_pred_proba, auc, plotted, knn_pred, svm_pred, dt_pred, pred_matrix,
                            disagreements >>

\* n_neighbors of KNeighborsClassifier() (line 81), used at lines 152-153
KnnNeighbors == 5

\* what the base learners need: no NaN, two classes for the SVC, and as many
\* training rows as the k-nearest-neighbours vote asks for
BaseCanFit ==
    /\ ~HasNaN(X_train)
    /\ ~HasNaN(X_test)
    /\ Cardinality(LabelsOf(y_train)) >= 2
    /\ X_train.n >= KnnNeighbors

\* lines 152-157: each base learner is fit alone and predicts the held-out
\* rows; a learner predicts only labels it saw in y_train
BaseFit ==
    /\ pc = "base_fit"
    /\ IF BaseCanFit
       THEN /\ Ok("base_fit", "diversity")
            /\ \E k \in [1..Len(y_test) -> LabelsOf(y_train)] : knn_pred' = k
            /\ \E s \in [1..Len(y_test) -> LabelsOf(y_train)] : svm_pred' = s
            /\ \E d \in [1..Len(y_test) -> LabelsOf(y_train)] : dt_pred' = d
            /\ UNCHANGED << stdout, files, uci_df, india_df, combined_data, data_sampled, X, y,
                            scaler, X_scaled, X_train, X_test, y_train, y_test, grid_search,
                            y_pred_proba, auc, plotted, y_pred, metrics, pred_matrix,
                            disagreements >>
       ELSE Fail("base_fit")

\* lines 160-164
Diversity ==
    /\ pc = "diversity"
    /\ Ok("diversity", "done")
    /\ pred_matrix' = PredMatrix(knn_pred, svm_pred, dt_pred)
    /\ disagreements' = PairwiseHammingMean(pred_matrix')
    /\ stdout' = Append(stdout, "Model Disagreement (Diversity)")
    /\ UNCHANGED << files, uci_df, india_df, combined_data, data_sampled, X, y, scaler,
                            X_scaled, X_train, X_test, y_train, y_test, grid_search,
                            y_pred_proba, auc, plotted, y_pred, metrics, knn_pred, svm_pred,
                            dt_pred >>

(* --------------------------- specifications --------------------------- *)
Next ==
    \/ LoadUci \/ LoadIndia \/ CleanUci \/ CleanIndia \/ DropPatientId
    \/ RenameIndia \/ BinarizeUci \/ BinarizeIndia \/ Combine \/ SampleRows
    \/ SplitXy \/ Scale \/ TrainTestSplit \/ GridFit \/ ReportBest
    \/ PredictProba \/ Auc \/ RocPlot \/ PredictReport \/ BaseFit \/ Diversity

\* the whole script on two files of RowsA and RowsB rows: 10 sampled rows, 8 of
\* them for training and 2 held out
Spec == Init /\ [][Next]_vars

\* the harmonization statements (lines 22-64) on small files in which one
\* column of one file ranges over every sequence of fields
InitHarmonize == pc = "load_uci" /\ \E inp \in HarmonizeInputs(SmallRows) : Blank(inp)

NextHarmonize ==
    \/ LoadUci \/ LoadIndia \/ CleanUci \/ CleanIndia \/ DropPatientId
    \/ RenameIndia \/ BinarizeUci \/ BinarizeIndia \/ Combine

SpecHarmonize == InitHarmonize /\ [][NextHarmonize]_vars

(* ------------------------------ claims -------------------------------- *)
Did(stage) == \E i \in 1..Len(ran) : ran[i] = stage
IndexOf(stage) == CHOOSE i \in 1..Len(StageOrder) : StageOrder[i] = stage
PrefixBefore(stage) == SubSeq(StageOrder, 1, IndexOf(stage) - 1)
Stages == {StageOrder[i] : i \in 1..Len(StageOrder)}
Zero == Int2Rat(0)
One == Int2Rat(1)

\* C1: the scaling statistics come from the training rows only: no more rows
\* are counted in a column's statistics than the training partition holds, and
\* the training partition, centred with the fitted mean, has mean zero.
C1_TrainOnlyStatistics ==
    Did("tts") =>
        \A c \in X_train.cols :
            /\ scaler.n_samples_seen_[c] <= X_train.n
            /\ NanMean([i \in 1..X_train.n |-> X_train.cell[c][i].num]) \in {Zero, NaN}

\* the mean over the pairs of learners of the share of held-out instances on
\* which the two learners differ
LearnerPairDisagreement(k, s, d) ==
    RDivInt(RAdd(RAdd(Hamming(k, s), Hamming(k, d)), Hamming(s, d)), 3)

\* C2: the diversity score equals the mean, over the pairs of learners, of the
\* fraction of held-out instances on which the two learners' predictions differ.
C2_ScoreIsLearnerPairMean ==
    Did("diversity") => disagreements = LearnerPairDisagreement(knn_pred, svm_pred, dt_pred)

\* C3: the diversity score is 0 exactly when knn, svm and dt predict the same
\* label on every held-out instance.
C3_ZeroIffLearnersAgree ==
    Did("diversity") => (disagreements = Zero <=> (knn_pred = svm_pred /\ svm_pred = dt_pred))

\* C4 as stated: after harmonization the column names of the source-A table
\* equal the column names of the source-B table.
C4_SameColumnNames ==
    Did("rename") => uci_df.cols = india_df.cols

\* C4 amended: after harmonization the source-B table has exactly the canonical
\* names, the source-A table keeps the names of its file, and so the two sets
\* are equal exactly when the source-A file's header is the canonical names.
C4_SourceBCanonical ==
    Did("rename") =>
        /\ india_df.cols = CanonicalNames
        /\ uci_df.cols = files.uci.cols
        /\ (uci_df.cols = india_df.cols <=> files.uci.cols = CanonicalNames)

C4_Witness ==
    /\ Did("rename")
    /\ "patientid" \in files.india.cols
    /\ files.uci.cols = CanonicalNames
    /\ uci_df.cols = india_df.cols

\* C5: when the two harmonized tables do not have the same column names at
\* concatenation the run aborts there with a schema-mismatch error: there is no
\* combined table, and no sampling, training or evaluation step has run.
C5_MismatchAborts ==
    (Did("bin_india") /\ pc # "concat" /\ uci_df.cols # india_df.cols) =>
        /\ pc = "aborted"
        /\ failed = "concat"
        /\ combined_data = NoTable
        /\ data_sampled = NoTable
        /\ grid_search = "unfitted"
        /\ y_pred = << >>

IsBinary(v) == v \in {Zero, One}
AllBinary(s) == \A i \in 1..Len(s) : IsBinary(s[i])

C6_Labels ==
    /\ Did("bin_uci") => AllBinary(ColVals(uci_df, "num"))
    /\ Did("bin_india") => AllBinary(ColVals(india_df, "num"))
    /\ Did("concat") => AllBinary(ColVals(combined_data, "num"))
    /\ Did("sample") => AllBinary(ColVals(data_sampled, "num"))
    /\ AllBinary(y) /\ AllBinary(y_train) /\ AllBinary(y_test)

C6_Step ==
    /\ (pc = "bin_uci" /\ pc' = "bin_india") =>
          \A i \in 1..uci_df.n :
              (uci_df'.cell["num"][i].n = 1) <=>
                  (uci_df.cell["num"][i].d > 0 /\ uci_df.cell["num"][i].n > 0)
    /\ (pc = "bin_india" /\ pc' = "concat") =>
          \A i \in 1..india_df.n :
              (india_df'.cell["num"][i].n = 1) <=>
                  (india_df.cell["num"][i].d > 0 /\ india_df.cell["num"][i].n > 0)

\* C6: after the Label Binarizer every value of 'num' in each source table, in
\* the combined table, the sampled label vector, y_train and y_test is 0 or 1,
\* whatever the raw outcome was, and it is 1 exactly when the value held just
\* before binarization is greater than 0.
C6_BinaryLabels == [](C6_Labels) /\ [][C6_Step]_vars

C6_Witness ==
    /\ Did("tts")
    /\ \E i \in 1..files.uci.n : files.uci.tok["num"][i] = "-9"
    /\ \E i \in 1..files.uci.n : files.uci.tok["num"][i] = "0.5"
    /\ \E i \in 1..files.uci.n : files.uci.tok["num"][i] = "NA"
    /\ LabelsOf(y_train) \cup LabelsOf(y_test) = {Zero, One}

\* a raw field the claims count as missing: a sentinel or not a number
MissingLike(tok) == tok \in {"?", "-9"} \/ IsNaN(ParseNum(tok))

\* the mean of the fields of a raw column that are not MissingLike
RemainingMean(toks) ==
    NanMean([i \in 1..Len(toks) |-> IF MissingLike(toks[i]) THEN NaN ELSE ParseNum(toks[i])])

MissingCellsHoldMean(toks, col) ==
    (\E i \in 1..Len(toks) : ~MissingLike(toks[i])) =>
        \A i \in 1..Len(toks) :
            /\ col[i].k = "num"
            /\ Val(col[i]) = IF MissingLike(toks[i]) THEN RemainingMean(toks)
                             ELSE ParseNum(toks[i])

\* C7: in each source table, in every column with a numeric value, after
\* cleaning no cell is missing: a cell whose raw field was "?", "-9" or not a
\* number holds the mean of the column's other values, every other cell keeps
\* its raw value.
C7_MissingCellsHoldMean ==
    /\ pc = "clean_india" =>
          \A c \in files.uci.cols : MissingCellsHoldMean(files.uci.tok[c], uci_df.cell[c])
    /\ pc = "drop_id" =>
          \A c \in files.india.cols : MissingCellsHoldMean(files.india.tok[c], india_df.cell[c])

ZeroVariance(c) ==
    /\ X.n >= 1
    /\ \A i \in 1..X.n : ~CellIsNaN(X.cell[c][i]) /\ X.cell[c][i] = X.cell[c][1]

\* C8: a zero-variance column in the set the scaler is fit on makes the run
\* abort at normalization with a degenerate-column error; the column is never
\* transformed and passed on.
C8_ZeroVarianceAborts ==
    (Did("split_xy") /\ pc # "scale" /\ \E c \in X.cols : ZeroVariance(c)) =>
        /\ pc = "aborted"
        /\ failed = "scale"
        /\ X_scaled = NoTable

FullReport == << "Best Parameters", "Best AUC Score", "Stacking Model AUC",
                 "Confusion Matrix", "Classification Report", "Accuracy",
                 "F1 Score", "Model Disagreement (Diversity)" >>

\* what the statements r, run in that order, have written
RECURSIVE Written(_)
Written(r) ==
    IF r = << >> THEN << >>
    ELSE LET st == r[Len(r)]
             before == Written(SubSeq(r, 1, Len(r) - 1))
         IN  CASE st = "report_best"    -> before \o SubSeq(FullReport, 1, 2)
               [] st = "auc"            -> before \o SubSeq(FullReport, 3, 3)
               [] st = "predict_report" -> before \o SubSeq(FullReport, 4, 7)
               [] st = "diversity"      -> before \o SubSeq(FullReport, 8, 8)
               [] OTHER                 -> before

C9_Outcomes ==
    /\ pc \in Stages \cup {"done", "aborted"}
    /\ pc = "done" => failed = "none" /\ ran = StageOrder /\ stdout = FullReport
    /\ pc = "aborted" => failed \in Stages /\ ran = PrefixBefore(failed)
    /\ failed # "none" => pc = "aborted"
    /\ pc \in Stages => ran = PrefixBefore(pc)
    /\ stdout = Written(ran)

NextOf(stage) ==
    IF IndexOf(stage) = Len(StageOrder) THEN "done" ELSE StageOrder[IndexOf(stage) + 1]

\* a step runs the statement at pc: it completes and control reaches the next
\* statement, or it fails and the run is over
C9_Step ==
    /\ pc \in Stages
    /\ \/ pc' = NextOf(pc) /\ failed' = "none" /\ ran' = Append(ran, pc)
       \/ pc' = "aborted" /\ failed' = pc /\ ran' = ran /\ stdout' = stdout

\* C9: a run ends in one of two ways, complete with the full report written or
\* aborted at the first statement that fails; once a statement has failed no
\* later statement has run and none is retried or recovered.
C9_CompleteOrAborted == [](C9_Outcomes) /\ [][C9_Step]_vars

C9_Witness ==
    /\ pc = "aborted"
    /\ failed = "auc"
    /\ stdout = SubSeq(FullReport, 1, 2)

MissingOutcomeLabel(raw, t, oc) ==
    /\ t.n = raw.n
    /\ \A i \in 1..raw.n :
          MissingLike(raw.tok[oc][i]) =>
              /\ IsBinary(Val(t.cell["num"][i]))
              /\ Val(t.cell["num"][i]) = One <=> RGt(RemainingMean(raw.tok[oc]), Zero)

\* C10: a row whose raw outcome is missing, a sentinel or unparseable is kept
\* and gets label 1 exactly when the mean of the parseable outcome values of
\* its own source table is greater than 0.
C10_MissingOutcomeLabel ==
    /\ Did("bin_uci") => MissingOutcomeLabel(files.uci, uci_df, "num")
    /\ Did("bin_india") => MissingOutcomeLabel(files.india, india_df, "target")
    /\ Did("concat") => combined_data.n = files.uci.n + files.india.n

====
